---- MODULE Spec2Model ----
(***************************************************************************)
(* A model of DifferentialGeometry.py: the three geometry classes, their   *)
(* constructors and tensor computations, and the geodesic solver.          *)
(*                                                                         *)
(* Symbolic scalars.  The metrics of the model have entries                *)
(*     c * exp(k1*x1 + ... + kN*xN)        (c rational, k integers),       *)
(* the family of the Rindler metric of the source's driver (line 208).     *)
(* An expression is a finite sum of such terms, kept in canonical form as  *)
(* a function from exponent vectors to non-zero rational coefficients.     *)
(* This family is closed under +, -, *, partial differentiation and under  *)
(* division by a single term, which is all the code applies to a metric    *)
(* whose determinant is a single term.                                     *)
(***************************************************************************)
EXTENDS Integers, Sequences, FiniteSets, TLC

\* Largest number of rows or columns of a supplied matrix.
MaxDim == 3
\* Number of states of the modelled pseudo-random generator.
RngMod == 3
\* Largest number of calls of geodesic methods and draws in one behaviour.
MaxCalls == 2

\* Symbols x1..xNSym: one more than MaxDim, so that a variable list can be
\* longer than the matrix has rows.
NSym == MaxDim + 1
Syms == 1..NSym

-----------------------------------------------------------------------------
(* Rational numbers <<n, d>>, d > 0, in lowest terms. *)

Abs(n) == IF n < 0 THEN -n ELSE n

RECURSIVE Gcd(_, _)
Gcd(a, b) == IF b = 0 THEN a ELSE Gcd(b, a % b)

Rat(n, d) ==
  LET s == IF d < 0 THEN -1 ELSE 1
      g == Gcd(Abs(n), Abs(d))
  IN  <<(s * n) \div g, (s * d) \div g>>

RAdd(p, q) == Rat(p[1] * q[2] + q[1] * p[2], p[2] * q[2])
RMul(p, q) == Rat(p[1] * q[1], p[2] * q[2])
RNeg(p) == <<-p[1], p[2]>>
RInv(p) == Rat(p[2], p[1])
RZero == <<0, 1>>

-----------------------------------------------------------------------------
(* Expressions: canonical sums of exponential terms. *)

ZeroVec == [i \in Syms |-> 0]
UnitVec(v) == [i \in Syms |-> IF i = v THEN 1 ELSE 0]
VAdd(a, b) == [i \in Syms |-> a[i] + b[i]]
VNeg(a) == [i \in Syms |-> -a[i]]
VScale(k, a) == [i \in Syms |-> k * a[i]]

Zero == [e \in {} |-> RZero]
Coef(p, e) == IF e \in DOMAIN p THEN p[e] ELSE RZero
Norm(p) == [e \in {d \in DOMAIN p : p[d][1] # 0} |-> p[e]]
Term(r, e) == IF r[1] = 0 THEN Zero ELSE [d \in {e} |-> r]
Const(n) == Term(<<n, 1>>, ZeroVec)

EAdd(p, q) == Norm([e \in DOMAIN p \cup DOMAIN q |-> RAdd(Coef(p, e), Coef(q, e))])
EScale(r, p) == Norm([e \in DOMAIN p |-> RMul(r, p[e])])
ENeg(p) == [e \in DOMAIN p |-> RNeg(p[e])]
ESub(p, q) == EAdd(p, ENeg(q))

\* p times the single term r*exp(a).
EShift(p, r, a) ==
  LET D == {VAdd(e, a) : e \in DOMAIN p}
  IN  Norm([d \in D |-> RMul(r, p[VAdd(d, VNeg(a))])])

RECURSIVE EMul(_, _)
EMul(p, q) ==
  IF DOMAIN p = {} \/ DOMAIN q = {} THEN Zero
  ELSE LET a == CHOOSE e \in DOMAIN p : TRUE
           rest == [e \in DOMAIN p \ {a} |-> p[e]]
       IN  EAdd(EShift(q, p[a], a), EMul(rest, q))

\* Division by a single term (the determinant of a metric of the family).
EDivTerm(p, t) ==
  LET a == CHOOSE e \in DOMAIN t : TRUE
  IN  EShift(p, RInv(t[a]), VNeg(a))

\* sympy diff(p, x_v): d/dx_v exp(k.x) = k[v] * exp(k.x).
diff(p, v) == Norm([e \in DOMAIN p |-> RMul(<<e[v], 1>>, p[e])])

\* sympy simplify: the canonical form of the expression.
simplify(p) == Norm(p)

-----------------------------------------------------------------------------
(* Matrices: m[i][j], rows and columns indexed from 0 as in the code. *)

Idx(n) == 0..(n - 1)
NRows(m) == Cardinality(DOMAIN m)
NCols(m) == Cardinality(DOMAIN m[0])
IsSquare(m) == NRows(m) = NCols(m)

RECURSIVE ESumFrom(_, _, _)
\* f[lo] + ... + f[hi], the accumulation `+=` of the code's innermost loops.
ESumFrom(f, lo, hi) ==
  IF lo > hi THEN Zero ELSE EAdd(ESumFrom(f, lo, hi - 1), f[hi])

RemoveAt(s, k) == [i \in 1..(Len(s) - 1) |-> IF i < k THEN s[i] ELSE s[i + 1]]
IdxSeq(n) == [i \in 1..n |-> i - 1]

RECURSIVE Minor(_, _, _)
\* Determinant of the submatrix of m on rows rs and columns cs (Laplace
\* expansion along the first of the rows).
Minor(m, rs, cs) ==
  IF Len(rs) = 0 THEN Const(1)
  ELSE ESumFrom([k \in 1..Len(cs) |->
                   EScale(<<IF k % 2 = 1 THEN 1 ELSE -1, 1>>,
                          EMul(m[rs[1]][cs[k]],
                               Minor(m, Tail(rs), RemoveAt(cs, k))))],
                1, Len(cs))

\* sympy Matrix.det() of a square matrix.
Det(m) == Minor(m, IdxSeq(NRows(m)), IdxSeq(NCols(m)))

\* sympy Matrix.inv(): NonSquareMatrixError for a matrix that is not square,
\* NonInvertibleMatrixError ("Matrix det == 0; not invertible.") for a
\* singular one, otherwise the inverse (adjugate over determinant).
InvRaises(m) ==
  IF ~IsSquare(m) THEN "NonSquareMatrixError"
  ELSE IF Det(m) = Zero THEN "NonInvertibleMatrixError"
  ELSE "none"

Inv(m) ==
  LET n == NRows(m)
      d == Det(m)
  IN  [i \in Idx(n) |-> [j \in Idx(n) |->
        EDivTerm(EScale(<<IF (i + j) % 2 = 0 THEN 1 ELSE -1, 1>>,
                        Minor(m, RemoveAt(IdxSeq(n), j + 1),
                                 RemoveAt(IdxSeq(n), i + 1))),
                 d)]]

-----------------------------------------------------------------------------
(* The tensor computations, as the methods compute them.  x is the list   *)
(* self.variables (a sequence of symbols); the code's x[i] is x[i + 1].   *)

Half == <<1, 2>>

\* A list index i of the code is in range.
InRange(x, i) == i + 1 \in DOMAIN x

\* compute_gaussian_curvature with its first term divided by det instead of
\* 2 * det.
compute_gaussian_curvature_det(g, det, x) ==
  LET x0 == x[1]
      x1 == x[2]
      two(e) == EScale(<<2, 1>>, e)
      sq(e) == EMul(e, e)
      det4 == EScale(<<4, 1>>, sq(det))
      first_term ==
        EDivTerm(ESub(ESub(two(diff(diff(g[0][1], x0), x1)),
                           diff(diff(g[0][0], x1), x1)),
                      diff(diff(g[1][1], x0), x0)),
                 det)
      second_term ==
        EDivTerm(EMul(ESub(EMul(diff(g[0][0], x0),
                                ESub(two(diff(g[0][1], x1)), diff(g[1][1], x0))),
                           sq(diff(g[0][0], x1))),
                      g[1][1]),
                 det4)
      third_term ==
        EDivTerm(EMul(EAdd(ESub(EMul(diff(g[0][0], x0), diff(g[1][1], x1)),
                                two(EMul(diff(g[0][0], x1), diff(g[1][1], x0)))),
                           EMul(ESub(two(diff(g[0][1], x0)), diff(g[0][0], x1)),
                                ESub(two(diff(g[0][1], x1)), diff(g[1][1], x0)))),
                      g[0][1]),
                 det4)
      forth_term ==
        EDivTerm(EMul(ESub(EMul(diff(g[1][1], x1),
                                ESub(two(diff(g[0][1], x0)), diff(g[0][0], x1))),
                           sq(diff(g[1][1], x0))),
                      g[0][0]),
                 det4)
  IN  simplify(ESub(EAdd(ESub(first_term, second_term), third_term), forth_term))

compute_gaussian_curvature(g, det, x) ==
  LET x0 == x[1]
      x1 == x[2]
      two(e) == EScale(<<2, 1>>, e)
      sq(e) == EMul(e, e)
      det2 == two(det)
      det4 == EScale(<<4, 1>>, sq(det))
      first_term ==
        EDivTerm(ESub(ESub(two(diff(diff(g[0][1], x0), x1)),
                           diff(diff(g[0][0], x1), x1)),
                      diff(diff(g[1][1], x0), x0)),
                 det2)
      second_term ==
        EDivTerm(EMul(ESub(EMul(diff(g[0][0], x0),
                                ESub(two(diff(g[0][1], x1)), diff(g[1][1], x0))),
                           sq(diff(g[0][0], x1))),
                      g[1][1]),
                 det4)
      third_term ==
        EDivTerm(EMul(EAdd(ESub(EMul(diff(g[0][0], x0), diff(g[1][1], x1)),
                                two(EMul(diff(g[0][0], x1), diff(g[1][1], x0)))),
                           EMul(ESub(two(diff(g[0][1], x0)), diff(g[0][0], x1)),
                                ESub(two(diff(g[0][1], x1)), diff(g[1][1], x0)))),
                      g[0][1]),
                 det4)
      forth_term ==
        EDivTerm(EMul(ESub(EMul(diff(g[1][1], x1),
                                ESub(two(diff(g[0][1], x0)), diff(g[0][0], x1))),
                           sq(diff(g[1][1], x0))),
                      g[0][0]),
                 det4)
  IN  simplify(ESub(EAdd(ESub(first_term, second_term), third_term), forth_term))

\* compute_christoffel_symbols with the second derivative taken along
\* x[lamda] instead of x[nu].
compute_christoffel_symbols_index(g, inv_g, x, ndim) ==
  [rho \in Idx(ndim) |-> [lamda \in Idx(ndim) |-> [nu \in Idx(ndim) |->
     simplify(ESumFrom(
       [mu \in Idx(ndim) |->
          EScale(Half,
                 EMul(inv_g[rho][mu],
                      ESub(EAdd(diff(g[mu][nu], x[lamda + 1]),
                                diff(g[mu][lamda], x[lamda + 1])),
                           diff(g[nu][lamda], x[mu + 1]))))],
       0, ndim - 1))]]]

compute_christoffel_symbols(g, inv_g, x, ndim) ==
  [rho \in Idx(ndim) |-> [lamda \in Idx(ndim) |-> [nu \in Idx(ndim) |->
     simplify(ESumFrom(
       [mu \in Idx(ndim) |->
          EScale(Half,
                 EMul(inv_g[rho][mu],
                      ESub(EAdd(diff(g[mu][nu], x[lamda + 1]),
                                diff(g[mu][lamda], x[nu + 1])),
                           diff(g[nu][lamda], x[mu + 1]))))],
       0, ndim - 1))]]]

\* compute_riemann_curvature_tensor with the sign of its first derivative
\* term flipped.
compute_riemann_curvature_tensor_sign(gamma, x, ndim) ==
  [rho \in Idx(ndim) |-> [lamda \in Idx(ndim) |->
     [mu \in Idx(ndim) |-> [nu \in Idx(ndim) |->
        simplify(EAdd(
          ESumFrom(
            [sigma \in Idx(ndim) |->
               EAdd(ENeg(EMul(gamma[sigma][lamda][mu], gamma[rho][sigma][nu])),
                    EMul(gamma[sigma][lamda][nu], gamma[rho][sigma][mu]))],
            0, ndim - 1),
          EAdd(diff(gamma[rho][lamda][mu], x[nu + 1]),
               diff(gamma[rho][lamda][nu], x[mu + 1]))))]]]]

compute_riemann_curvature_tensor(gamma, x, ndim) ==
  [rho \in Idx(ndim) |-> [lamda \in Idx(ndim) |->
     [mu \in Idx(ndim) |-> [nu \in Idx(ndim) |->
        simplify(EAdd(
          ESumFrom(
            [sigma \in Idx(ndim) |->
               EAdd(ENeg(EMul(gamma[sigma][lamda][mu], gamma[rho][sigma][nu])),
                    EMul(gamma[sigma][lamda][nu], gamma[rho][sigma][mu]))],
            0, ndim - 1),
          EAdd(ENeg(diff(gamma[rho][lamda][mu], x[nu + 1])),
               diff(gamma[rho][lamda][nu], x[mu + 1]))))]]]]

compute_ricci_tensor(riemann, ndim) ==
  [mu \in Idx(ndim) |-> [nu \in Idx(ndim) |->
     simplify(ESumFrom([lamda \in Idx(ndim) |-> riemann[lamda][mu][lamda][nu]],
                       0, ndim - 1))]]

compute_ricci_scalar(inv_g, ricci, ndim) ==
  simplify(ESumFrom(
    [mu \in Idx(ndim) |->
       ESumFrom([nu \in Idx(ndim) |-> EMul(inv_g[mu][nu], ricci[mu][nu])],
                0, ndim - 1)],
    0, ndim - 1))

compute_einstein_tensor(g, ricci, ricci_scalar, ndim) ==
  [mu \in Idx(ndim) |-> [nu \in Idx(ndim) |->
     simplify(ESub(ricci[mu][nu],
                   EMul(EScale(Half, ricci_scalar), g[mu][nu])))]]

-----------------------------------------------------------------------------
(* Geodesic equation and the random initial state. *)

\* The right-hand side for coordinate i: minus the sum over j, k of
\* gamma[i,j,k] * x_j'(s) * x_k'(s), collected by the product of velocities
\* (a commutative product: the pair <<j, k>> with j <= k).
geodesic_rhs(gamma, i, ndim) ==
  [jk \in {q \in Idx(ndim) \X Idx(ndim) : q[1] <= q[2]} |->
     ENeg(IF jk[1] = jk[2] THEN gamma[i][jk[1]][jk[2]]
          ELSE EAdd(gamma[i][jk[1]][jk[2]], gamma[i][jk[2]][jk[1]]))]

\* The dict of compute_geodesic_equation, keyed by parameterized_vars[i].
compute_geodesic_equation(obj) ==
  [i \in Idx(obj.ndim) |-> geodesic_rhs(obj.christoffel_symbols, i, obj.ndim)]

\* numpy's global generator: np.random.seed(seed) sets its state from the
\* seed alone; np.random.random() advances the state and returns a value
\* that is a function of the new state.
seed_state(seed) == seed % RngMod
next_state(s) == (s + 1) % RngMod

RECURSIVE draw_states(_, _)
\* The generator states after 1, 2, ..., k draws from state s.
draw_states(s, k) ==
  IF k = 0 THEN <<>> ELSE <<next_state(s)>> \o draw_states(next_state(s), k - 1)

-----------------------------------------------------------------------------
(* Inputs. *)

\* The classes, in the order the model's caller constructs them on one
\* input (the driver, lines 186-187, constructs the two subclasses in this
\* order; the objects share no state).
ClassSeq == <<"DifferentialGeometry", "ClassicalDifferentialGeometry", "RiemannGeometry">>
Classes == {ClassSeq[i] : i \in DOMAIN ClassSeq}

\* Seeds passed to solve_geodesic_equation (104 is the driver's).
Seeds == {1, 104}

\* Coefficients of the supplied metrics: first diagonal entry, the other
\* diagonal entries, the entries above and those below the diagonal.
FirstDiag == {-1, 0, 1}
RestDiag == {1, 2}
OffDiag == {0, 1}
\* Integers in the exponents of the entries.
Exps == {0, 1}

\* The r x c matrix with entries coef(i,j) * exp(p_i + p_j), where
\* p_0 = ea * x2 and p_i = eb * x1 for i > 0.
MetricOf(r, c, d0, dr, u, l, ea, eb) ==
  LET p(i) == IF i = 0 THEN VScale(ea, UnitVec(2)) ELSE VScale(eb, UnitVec(1))
      coef(i, j) == IF i = j THEN (IF i = 0 THEN d0 ELSE dr)
                    ELSE IF i < j THEN u ELSE l
  IN  [i \in Idx(r) |-> [j \in Idx(c) |-> Term(<<coef(i, j), 1>>, VAdd(p(i), p(j)))]]

Metrics ==
  {MetricOf(r, c, d0, dr, u, l, ea, eb) :
     r \in 1..MaxDim, c \in 1..MaxDim, d0 \in FirstDiag, dr \in RestDiag,
     u \in OffDiag, l \in OffDiag, ea \in Exps, eb \in Exps}

\* Variable lists: the first k symbols, in order.
VarLists == {[i \in 1..k |-> i] : k \in 0..NSym}

-----------------------------------------------------------------------------
(* State. *)

VARIABLES
  metric,       \* the matrix passed to the constructors
  variables,    \* the variable list passed to the constructors
  pc,           \* [cls, at]: the constructor running and its position
  self,         \* the object under construction (its attributes so far)
  result,       \* per class: what the constructor call gave its caller
  rng,          \* state of numpy's global random generator
  odeint_memo,  \* odeint's outcome for each initial state integrated so far
  calls         \* the geodesic calls and draws so far, each with its outcome
                \* (a solve call also with the generator state it started from)

vars == <<metric, variables, pc, self, result, rng, odeint_memo, calls>>

Idle == [cls |-> "none", at |-> "idle"]
NoObject == [class |-> "none"]
Unset == [state |-> "unset"]

Init ==
  /\ metric \in Metrics
  /\ variables \in VarLists
  /\ Len(variables) \in {NRows(metric) - 1, NRows(metric), NRows(metric) + 1}
  /\ pc = Idle
  /\ self = NoObject
  /\ result = [c \in Classes |-> Unset]
  /\ rng = 0
  /\ odeint_memo = [y \in {} |-> "finite"]
  /\ calls = <<>>

geo_unchanged == UNCHANGED <<rng, odeint_memo, calls>>

\* An exception leaves the constructor: the caller gets no object.
Raise(kind) ==
  /\ result' = [result EXCEPT ![pc.cls] = [state |-> "raised", error |-> kind]]
  /\ self' = NoObject
  /\ pc' = Idle

\* cls(metric, variables) is called.
Construct(cls) ==
  /\ pc = Idle
  /\ result[cls] = Unset
  /\ \A i, j \in DOMAIN ClassSeq : i < j /\ ClassSeq[j] = cls => result[ClassSeq[i]] # Unset
  /\ pc' = [cls |-> cls, at |-> "super().__init__"]
  /\ self' = [class |-> cls]
  /\ UNCHANGED <<metric, variables, result>>
  /\ geo_unchanged

\* DifferentialGeometry.__init__ that fails only for a matrix that is not
\* square: a singular metric goes on, with no inverse.
DifferentialGeometry_init_unchecked ==
  /\ pc.at = "super().__init__"
  /\ IF ~IsSquare(metric)
       THEN Raise("NonSquareMatrixError")
       ELSE /\ self' = self @@ [metric |-> metric,
                                inverse_metric |-> IF Det(metric) = Zero THEN metric
                                                   ELSE Inv(metric),
                                det |-> Det(metric),
                                ndim |-> NRows(metric),
                                variables |-> variables,
                                parameterized_vars |-> variables]
            /\ pc' = [pc EXCEPT !.at = IF pc.cls = "DifferentialGeometry"
                                         THEN "return" ELSE "body"]
            /\ UNCHANGED result
  /\ UNCHANGED <<metric, variables>>
  /\ geo_unchanged

\* DifferentialGeometry.__init__, lines 11-16.
DifferentialGeometry_init ==
  /\ pc.at = "super().__init__"
  /\ IF InvRaises(metric) # "none"
       THEN Raise(InvRaises(metric))
       ELSE /\ self' = self @@ [metric |-> metric,
                                inverse_metric |-> Inv(metric),
                                det |-> Det(metric),
                                ndim |-> NRows(metric),
                                variables |-> variables,
                                parameterized_vars |-> variables]
            /\ pc' = [pc EXCEPT !.at = IF pc.cls = "DifferentialGeometry"
                                         THEN "return" ELSE "body"]
            /\ UNCHANGED result
  /\ UNCHANGED <<metric, variables>>
  /\ geo_unchanged

\* ClassicalDifferentialGeometry.__init__ asserting ndim >= 2.
Classical_init_atleast2 ==
  /\ pc = [cls |-> "ClassicalDifferentialGeometry", at |-> "body"]
  /\ IF self.ndim < 2 THEN Raise("AssertionError")
     ELSE IF ~InRange(self.variables, 0) \/ ~InRange(self.variables, 1)
       THEN Raise("IndexError")
     ELSE /\ self' = self @@ [gaussian_curvature |->
                 compute_gaussian_curvature(self.metric, self.det, self.variables)]
          /\ pc' = [pc EXCEPT !.at = "return"]
          /\ UNCHANGED result
  /\ UNCHANGED <<metric, variables>>
  /\ geo_unchanged

\* ClassicalDifferentialGeometry.__init__, lines 23-24.
Classical_init ==
  /\ pc = [cls |-> "ClassicalDifferentialGeometry", at |-> "body"]
  /\ IF self.ndim # 2 THEN Raise("AssertionError")
     ELSE IF ~InRange(self.variables, 0) \/ ~InRange(self.variables, 1)
       THEN Raise("IndexError")
     ELSE /\ self' = self @@ [gaussian_curvature |->
                 compute_gaussian_curvature(self.metric, self.det, self.variables)]
          /\ pc' = [pc EXCEPT !.at = "return"]
          /\ UNCHANGED result
  /\ UNCHANGED <<metric, variables>>
  /\ geo_unchanged

\* RiemannGeometry.__init__ that swallows the IndexError of
\* compute_christoffel_symbols and returns the object as it is.
Riemann_christoffel_swallow ==
  /\ pc = [cls |-> "RiemannGeometry", at |-> "body"]
  /\ IF \E i \in Idx(self.ndim) : ~InRange(self.variables, i)
       THEN /\ self' = self
            /\ pc' = [pc EXCEPT !.at = "return"]
            /\ UNCHANGED result
       ELSE /\ self' = self @@ [christoffel_symbols |->
                   compute_christoffel_symbols(self.metric, self.inverse_metric,
                                               self.variables, self.ndim)]
            /\ pc' = [pc EXCEPT !.at = "riemann"]
            /\ UNCHANGED result
  /\ UNCHANGED <<metric, variables>>
  /\ geo_unchanged

\* RiemannGeometry.__init__, line 46.
Riemann_christoffel ==
  /\ pc = [cls |-> "RiemannGeometry", at |-> "body"]
  /\ IF \E i \in Idx(self.ndim) : ~InRange(self.variables, i)
       THEN Raise("IndexError")
       ELSE /\ self' = self @@ [christoffel_symbols |->
                   compute_christoffel_symbols(self.metric, self.inverse_metric,
                                               self.variables, self.ndim)]
            /\ pc' = [pc EXCEPT !.at = "riemann"]
            /\ UNCHANGED result
  /\ UNCHANGED <<metric, variables>>
  /\ geo_unchanged

\* RiemannGeometry.__init__, line 47.
Riemann_riemann ==
  /\ pc = [cls |-> "RiemannGeometry", at |-> "riemann"]
  /\ self' = self @@ [riemann_curvature_tensor |->
        compute_riemann_curvature_tensor(self.christoffel_symbols,
                                         self.variables, self.ndim)]
  /\ pc' = [pc EXCEPT !.at = "ricci"]
  /\ UNCHANGED <<metric, variables, result>>
  /\ geo_unchanged

\* RiemannGeometry.__init__, line 48.
Riemann_ricci ==
  /\ pc = [cls |-> "RiemannGeometry", at |-> "ricci"]
  /\ self' = self @@ [ricci_tensor |->
        compute_ricci_tensor(self.riemann_curvature_tensor, self.ndim)]
  /\ pc' = [pc EXCEPT !.at = "scalar"]
  /\ UNCHANGED <<metric, variables, result>>
  /\ geo_unchanged

\* RiemannGeometry.__init__, line 49.
Riemann_scalar ==
  /\ pc = [cls |-> "RiemannGeometry", at |-> "scalar"]
  /\ self' = self @@ [ricci_scalar |->
        compute_ricci_scalar(self.inverse_metric, self.ricci_tensor, self.ndim)]
  /\ pc' = [pc EXCEPT !.at = "einstein"]
  /\ UNCHANGED <<metric, variables, result>>
  /\ geo_unchanged

\* RiemannGeometry.__init__, line 50.
Riemann_einstein ==
  /\ pc = [cls |-> "RiemannGeometry", at |-> "einstein"]
  /\ self' = self @@ [einstein_tensor |->
        compute_einstein_tensor(self.metric, self.ricci_tensor,
                                self.ricci_scalar, self.ndim)]
  /\ pc' = [pc EXCEPT !.at = "return"]
  /\ UNCHANGED <<metric, variables, result>>
  /\ geo_unchanged

\* The constructor returns: the caller holds the object.
Return ==
  /\ pc.at = "return"
  /\ result' = [result EXCEPT ![pc.cls] = [state |-> "returned", obj |-> self]]
  /\ self' = NoObject
  /\ pc' = Idle
  /\ UNCHANGED <<metric, variables>>
  /\ geo_unchanged

-----------------------------------------------------------------------------
(* Geodesic methods of a constructed RiemannGeometry object. *)

Constructed ==
  /\ pc = Idle
  /\ result["RiemannGeometry"].state = "returned"
  /\ Len(calls) < MaxCalls

\* compute_geodesic_equation that keeps its result on the object.
Call_compute_geodesic_equation_cached ==
  /\ Constructed
  /\ calls' = Append(calls,
       [method |-> "compute_geodesic_equation", kind |-> "returned",
        value |-> compute_geodesic_equation(result["RiemannGeometry"].obj)])
  /\ result' = [result EXCEPT !["RiemannGeometry"].obj =
                  @ @@ [geodesic_equation |-> compute_geodesic_equation(@)]]
  /\ UNCHANGED <<metric, variables, pc, self, rng, odeint_memo>>

\* obj.compute_geodesic_equation() is called, lines 136-151.
Call_compute_geodesic_equation ==
  /\ Constructed
  /\ calls' = Append(calls,
       [method |-> "compute_geodesic_equation", kind |-> "returned",
        value |-> compute_geodesic_equation(result["RiemannGeometry"].obj)])
  /\ UNCHANGED <<metric, variables, pc, self, result, rng, odeint_memo>>

\* How odeint may end on a system: the integration of an identically zero
\* right-hand side (straight lines) cannot fail; any other may diverge.
odeint_outcomes(geodesic_equation) ==
  IF \A i \in DOMAIN geodesic_equation :
       \A jk \in DOMAIN geodesic_equation[i] : geodesic_equation[i][jk] = Zero
    THEN {"finite"}
    ELSE {"finite", "diverged"}

\* solve_geodesic_equation without line 154: the generator is not seeded.
solve_geodesic_equation_unseeded(obj, seed, s, solver) ==
  LET geodesic_equation == compute_geodesic_equation(obj)
      ys == draw_states(s, 2 * obj.ndim)
  IN  IF Len(obj.parameterized_vars) > obj.ndim
        THEN [rng |-> s, kind |-> "raised", error |-> "KeyError"]
        ELSE [rng |-> ys[2 * obj.ndim], kind |-> "returned",
              value |-> [y0 |-> ys, rhs |-> geodesic_equation, samples |-> solver]]

\* What solve_geodesic_equation(seed) does on obj from generator state s:
\* the state it leaves the generator in, and what the caller gets.  solver
\* is odeint's outcome for the initial state, "finite" or "diverged".
\* Line 164 looks up geodesic_equation[var] for every parameterized
\* variable: a KeyError when there are more of them than ndim.
solve_geodesic_equation(obj, seed, s, solver) ==
  LET s0 == seed_state(seed)
      geodesic_equation == compute_geodesic_equation(obj)
      ys == draw_states(s0, 2 * obj.ndim)
  IN  IF Len(obj.parameterized_vars) > obj.ndim
        THEN [rng |-> s0, kind |-> "raised", error |-> "KeyError"]
        ELSE [rng |-> ys[2 * obj.ndim], kind |-> "returned",
              value |-> [y0 |-> ys, rhs |-> geodesic_equation, samples |-> solver]]

\* obj.solve_geodesic_equation(seed) is called, lines 153-177.  odeint is a
\* function of its arguments: an initial state integrated before gives the
\* same outcome again.  On failure odeint warns and returns its array.
Call_solve_geodesic_equation(seed) ==
  /\ Constructed
  /\ \E solver \in odeint_outcomes(compute_geodesic_equation(result["RiemannGeometry"].obj)) :
       LET obj == result["RiemannGeometry"].obj
           out == solve_geodesic_equation(obj, seed, rng, solver)
       IN  /\ IF out.kind = "raised" THEN solver = "finite"
              ELSE out.value.y0 \in DOMAIN odeint_memo
                     => solver = odeint_memo[out.value.y0]
           /\ rng' = out.rng
           /\ odeint_memo' = IF out.kind = "returned"
                               THEN (out.value.y0 :> solver) @@ odeint_memo
                               ELSE odeint_memo
           /\ calls' = Append(calls,
                [method |-> "solve_geodesic_equation", seed |-> seed, from |-> rng] @@
                [k \in DOMAIN out \ {"rng"} |-> out[k]])
  /\ UNCHANGED <<metric, variables, pc, self, result>>

\* Any other code draws from the global generator: np.random.random().
Other_random ==
  /\ Constructed
  /\ rng' = next_state(rng)
  /\ calls' = Append(calls, [method |-> "np.random.random", kind |-> "returned",
                             value |-> next_state(rng)])
  /\ UNCHANGED <<metric, variables, pc, self, result, odeint_memo>>

Next ==
  \/ \E cls \in Classes : Construct(cls)
  \/ DifferentialGeometry_init
  \/ Classical_init
  \/ Riemann_christoffel
  \/ Riemann_riemann
  \/ Riemann_ricci
  \/ Riemann_scalar
  \/ Riemann_einstein
  \/ Return
  \/ Call_compute_geodesic_equation
  \/ \E seed \in Seeds : Call_solve_geodesic_equation(seed)
  \/ Other_random

Spec == Init /\ [][Next]_vars

-----------------------------------------------------------------------------
(* The error kinds of the specification, as the exceptions the code raises. *)

\* The 2D-only failure: the assertion of line 23.
DimensionalityError == "AssertionError"
\* A zero determinant: Matrix.inv() at line 12.
SingularMetricError == "NonInvertibleMatrixError"
\* A matrix that is not square: Matrix.inv() at line 12.
DimensionMismatchError == "NonSquareMatrixError"

Settled(cls) == result[cls].state # "unset"
Returned(cls) == result[cls].state = "returned"
RaisedWith(cls, kind) == result[cls] = [state |-> "raised", error |-> kind]
Singular(m) == IsSquare(m) /\ Det(m) = Zero
IsSymmetric(m) == IsSquare(m) /\ \A i, j \in DOMAIN m : m[i][j] = m[j][i]
Has(o, f) == f \in DOMAIN o

Classical == "ClassicalDifferentialGeometry"
Riemann == "RiemannGeometry"

\* The RiemannGeometry objects of a state that hold attribute f: the one under
\* construction and the one its caller holds.
RiemannWith(f) ==
  (IF pc.cls = Riemann /\ Has(self, f) THEN {self} ELSE {})
    \cup (IF Returned(Riemann) THEN {result[Riemann].obj} ELSE {})

-----------------------------------------------------------------------------
\* C1 (as stated): constructing ClassicalDifferentialGeometry with a square
\* metric of dimension n # 2 always fails with the DimensionalityError kind.
C1_Original ==
  (Settled(Classical) /\ IsSquare(metric) /\ NRows(metric) # 2)
    => RaisedWith(Classical, DimensionalityError)

\* C1 (amended): for n # 2 the construction always fails, no object is
\* returned and no gaussian_curvature is computed; the failure is of the
\* DimensionalityError kind when the metric is square and not singular, and
\* is the matrix inversion's error (not square, singular) otherwise.
C1_Amended ==
  /\ (pc.cls = Classical /\ Has(self, "gaussian_curvature")) => self.ndim = 2
  /\ (Settled(Classical) /\ NRows(metric) # 2) =>
        /\ result[Classical].state = "raised"
        /\ ~Has(result[Classical], "obj")
        /\ result[Classical].error =
             IF ~IsSquare(metric) THEN "NonSquareMatrixError"
             ELSE IF Singular(metric) THEN SingularMetricError
             ELSE DimensionalityError

C1_Witness ==
  /\ NRows(metric) = 3
  /\ RaisedWith(Classical, DimensionalityError)

\* C2: a metric whose determinant is exactly 0 fails the construction of
\* each of the three classes with the SingularMetricError kind, before any
\* attribute of the object is set.
C2_Singular ==
  Singular(metric) =>
    /\ pc.cls # "none" => DOMAIN self = {"class"}
    /\ \A cls \in Classes : Settled(cls) => RaisedWith(cls, SingularMetricError)

C2_Witness ==
  /\ Singular(metric)
  /\ NRows(metric) = 2
  /\ \A cls \in Classes : RaisedWith(cls, SingularMetricError)

\* C3 (as stated): a construction whose matrix is not square, or whose size
\* differs from the number of variables, fails with DimensionMismatchError
\* (stated here for the metrics that are not singular).
C3_Claim ==
  \A cls \in Classes :
    (Settled(cls) /\ ~Singular(metric)
       /\ (~IsSquare(metric) \/ Len(variables) # NRows(metric)))
      => RaisedWith(cls, DimensionMismatchError)

\* What a call gave its caller.
Outcome(c) == [k \in DOMAIN c \ {"method", "seed", "from"} |-> c[k]]

\* C4: the initial state of a solve_geodesic_equation call is the 2n draws
\* that follow the seeding, a function of the seed alone, and two calls with
\* the same seed give the same initial state and the same trajectory,
\* whatever state the generator was in when they started.
C4_Reproducible ==
  /\ \A i \in DOMAIN calls :
       (calls[i].method = "solve_geodesic_equation" /\ calls[i].kind = "returned")
         => calls[i].value.y0 =
              draw_states(seed_state(calls[i].seed), 2 * NRows(metric))
  /\ \A i, j \in DOMAIN calls :
       (calls[i].method = "solve_geodesic_equation"
          /\ calls[j].method = "solve_geodesic_equation"
          /\ calls[i].seed = calls[j].seed)
         => Outcome(calls[i]) = Outcome(calls[j])

\* Two calls with one seed that started from different generator states.
C4_Witness ==
  /\ Len(calls) = 2
  /\ calls[1].method = "solve_geodesic_equation"
  /\ calls[2].method = "solve_geodesic_equation"
  /\ calls[1].seed = calls[2].seed
  /\ calls[1].kind = "returned"
  /\ calls[1].from # calls[2].from
  /\ calls[2].from # seed_state(calls[2].seed)

\* C5 (as stated): for any metric RiemannGeometry accepts, the Christoffel
\* symbols are symmetric in their last two indices.
C5_Original ==
  \A o \in RiemannWith("christoffel_symbols") :
    \A rho, lamda, nu \in Idx(o.ndim) :
      o.christoffel_symbols[rho][lamda][nu] = o.christoffel_symbols[rho][nu][lamda]

\* C5 (amended): for any symmetric metric RiemannGeometry accepts, the
\* Christoffel symbols are symmetric in their last two indices.
C5_Amended == IsSymmetric(metric) => C5_Original

C5_Witness ==
  /\ IsSymmetric(metric)
  /\ NRows(metric) = 3
  /\ metric[0][1] # Zero
  /\ Returned(Riemann)
  /\ \E rho, lamda, nu \in Idx(NRows(metric)) :
       /\ lamda # nu
       /\ result[Riemann].obj.christoffel_symbols[rho][lamda][nu] # Zero

\* The entry of the Riemann tensor in the specification's convention:
\* +d_mu Gamma[rho][lamda][nu] - d_nu Gamma[rho][lamda][mu]
\* + sum_sigma (Gamma[sigma][lamda][nu] * Gamma[rho][sigma][mu]
\*              - Gamma[sigma][lamda][mu] * Gamma[rho][sigma][nu]).
ConventionEntry(gamma, x, ndim, rho, lamda, mu, nu) ==
  EAdd(ESub(diff(gamma[rho][lamda][nu], x[mu + 1]),
            diff(gamma[rho][lamda][mu], x[nu + 1])),
       ESumFrom([sigma \in Idx(ndim) |->
                   ESub(EMul(gamma[sigma][lamda][nu], gamma[rho][sigma][mu]),
                        EMul(gamma[sigma][lamda][mu], gamma[rho][sigma][nu]))],
                0, ndim - 1))

\* C6: the Riemann tensor of every object is antisymmetric in its last two
\* indices, and when compute_riemann_curvature_tensor has computed it each
\* entry has the value of the specification's sign convention.
C6_Antisymmetric ==
  /\ \A o \in RiemannWith("riemann_curvature_tensor") :
       \A rho, lamda, mu, nu \in Idx(o.ndim) :
         o.riemann_curvature_tensor[rho][lamda][mu][nu] =
           ENeg(o.riemann_curvature_tensor[rho][lamda][nu][mu])
  /\ pc = [cls |-> Riemann, at |-> "ricci"] =>
       \A rho, lamda, mu, nu \in Idx(self.ndim) :
         self.riemann_curvature_tensor[rho][lamda][mu][nu] =
           ConventionEntry(self.christoffel_symbols, self.variables, self.ndim,
                           rho, lamda, mu, nu)

C6_Witness ==
  /\ Returned(Riemann)
  /\ NRows(metric) = 2
  /\ ~IsSymmetric(metric)
  /\ result[Riemann].obj.riemann_curvature_tensor[0][1][0][1] # Zero

\* C7: for a valid (symmetric, non-singular) 2D metric, the Gaussian
\* curvature of ClassicalDifferentialGeometry equals half the Ricci scalar
\* of RiemannGeometry on the same metric and variables.
C7_GaussIsHalfRicci ==
  (IsSymmetric(metric) /\ Returned(Classical) /\ Returned(Riemann))
    => result[Classical].obj.gaussian_curvature =
         EScale(Half, result[Riemann].obj.ricci_scalar)

C7_Witness ==
  /\ IsSymmetric(metric)
  /\ NRows(metric) = 2
  /\ metric[0][1] # Zero
  /\ Returned(Classical)
  /\ Returned(Riemann)
  /\ Cardinality(DOMAIN result[Classical].obj.gaussian_curvature) > 1

\* The metric diag(-exp(2*x2), 1) in the variables (x1, x2): its geodesics
\* reach x2 = -infinity at a finite parameter value.
HorizonMetric == MetricOf(2, 2, -1, 1, 0, 0, 1, 0)

\* C8 (as stated): solve_geodesic_equation returns a trajectory only when
\* the integration succeeded; a failed integration is reported as an error
\* (stated here for the metric diag(-exp(2*x2), 1)).
C8_Claim ==
  metric = HorizonMetric =>
    \A i \in DOMAIN calls :
      (calls[i].method = "solve_geodesic_equation" /\ calls[i].kind = "returned")
        => calls[i].value.samples = "finite"

RiemannFields ==
  {"class", "metric", "inverse_metric", "det", "ndim", "variables",
   "parameterized_vars", "christoffel_symbols", "riemann_curvature_tensor",
   "ricci_tensor", "ricci_scalar", "einstein_tensor"}

\* t is an array of simplified expressions over every index tuple of the
\* given rank.
RECURSIVE Filled(_, _, _)
Filled(t, rank, ndim) ==
  IF rank = 0 THEN simplify(t) = t
  ELSE DOMAIN t = Idx(ndim) /\ \A i \in Idx(ndim) : Filled(t[i], rank - 1, ndim)

\* C9: a RiemannGeometry construction gives its caller either an object
\* whose five tensors are complete for every index combination, or an error
\* and no object; the tensors are computed in order, each after the ones it
\* reads.
C9_NoPartialResult ==
  /\ Returned(Riemann) =>
       LET o == result[Riemann].obj
       IN  /\ DOMAIN o = RiemannFields
           /\ Filled(o.christoffel_symbols, 3, o.ndim)
           /\ Filled(o.riemann_curvature_tensor, 4, o.ndim)
           /\ Filled(o.ricci_tensor, 2, o.ndim)
           /\ Filled(o.ricci_scalar, 0, o.ndim)
           /\ Filled(o.einstein_tensor, 2, o.ndim)
  /\ result[Riemann].state = "raised" => DOMAIN result[Riemann] = {"state", "error"}
  /\ pc.cls = Riemann =>
       /\ Has(self, "einstein_tensor") => Has(self, "ricci_scalar")
       /\ Has(self, "ricci_scalar") => Has(self, "ricci_tensor")
       /\ Has(self, "ricci_tensor") => Has(self, "riemann_curvature_tensor")
       /\ Has(self, "riemann_curvature_tensor") => Has(self, "christoffel_symbols")
       /\ Has(self, "christoffel_symbols") => Has(self, "inverse_metric")

\* A construction that failed in compute_christoffel_symbols, after the
\* metric attributes were set.
C9_Witness ==
  /\ RaisedWith(Riemann, "IndexError")
  /\ NRows(metric) = 3

\* C10: once the RiemannGeometry object is constructed, no call changes
\* any of its attributes or adds one (no cache), and every geodesic call
\* builds its equation from the object's Christoffel symbols.
C10_Frame ==
  [][Returned(Riemann) =>
       /\ result' = result
       /\ DOMAIN result'[Riemann].obj = RiemannFields
       /\ self' = self
       /\ \A i \in DOMAIN calls' :
            /\ calls'[i].method = "compute_geodesic_equation" =>
                 calls'[i].value = compute_geodesic_equation(result[Riemann].obj)
            /\ (calls'[i].method = "solve_geodesic_equation"
                  /\ calls'[i].kind = "returned") =>
                 calls'[i].value.rhs = compute_geodesic_equation(result[Riemann].obj)]_vars

C10_Witness ==
  /\ Len(calls) = 2
  /\ NRows(metric) = 2
  /\ \E i, j \in DOMAIN calls :
       /\ calls[i].method = "compute_geodesic_equation"
       /\ calls[j].method = "solve_geodesic_equation"
       /\ calls[j].kind = "returned"
       /\ calls[i].value[0][<<0, 1>>] # Zero

====
